---- MODULE Spec2Model ----
(***************************************************************************)
(* A model of SConsStandard: toolchain identity resolution (getCompiler),  *)
(* flag and path derivation (getEnvironment), the configuration handle     *)
(* (ZEnv, Clone, withLibraries, appendLibPath) and the compile-probe       *)
(* engine (detectStdlib, detectFilesystem, ConfigContext).                 *)
(*                                                                         *)
(* Python strings are TLA+ strings; a character is a string of length 1.   *)
(* A Python object that is shared by reference (an SCons Environment, a    *)
(* list attribute of a ZEnv) lives in a heap variable and is named by an   *)
(* identifier, so that aliasing is visible.                                *)
(***************************************************************************)
EXTENDS Integers, Sequences, FiniteSets, TLC

VARIABLES
    zenvs,          \* handle id -> ZEnv object (its attributes)
    environments,   \* environment id -> SCons Environment (construction variables)
    lists,          \* list id -> contents of a ZEnv-owned Python list
    contexts,       \* context id -> ConfigContext object (its attributes)
    last            \* the last call: operation, arguments, outcome, probes run

vars == <<zenvs, environments, lists, contexts, last>>

---------------------------------------------------------------------------
(* Bounds of the model *)

MaxHandles == 2     \* ZEnv objects alive at once
MaxLibs == 2        \* entries of LIBS / LIBPATH / an own list
VersionsAbove == 0  \* library versions modelled above the link thresholds
MaxContexts == 1    \* ConfigContext objects created

---------------------------------------------------------------------------
(* Python string helpers *)

None == "<None>"

Whitespace == {" ", "\t", "\n"}

CharAt(s, i) == SubSeq(s, i, i)

\* str.startswith
StartsWith(s, prefix) ==
    /\ Len(s) >= Len(prefix)
    /\ SubSeq(s, 1, Len(prefix)) = prefix

\* index of the first occurrence of the character c in s, 0 when absent
RECURSIVE FindFrom(_, _, _)
FindFrom(s, c, i) ==
    IF i > Len(s) THEN 0
    ELSE IF CharAt(s, i) = c THEN i
    ELSE FindFrom(s, c, i + 1)

Find(s, c) == FindFrom(s, c, 1)

\* s.split(" ", maxsplit=1)[0]
SplitFirst(s) ==
    IF Find(s, " ") = 0 THEN s ELSE SubSeq(s, 1, Find(s, " ") - 1)

\* s.strip()
RECURSIVE LStrip(_)
LStrip(s) ==
    IF Len(s) > 0 /\ CharAt(s, 1) \in Whitespace THEN LStrip(Tail(s)) ELSE s

RECURSIVE RStrip(_)
RStrip(s) ==
    IF Len(s) > 0 /\ CharAt(s, Len(s)) \in Whitespace
    THEN RStrip(SubSeq(s, 1, Len(s) - 1))
    ELSE s

Strip(s) == RStrip(LStrip(s))

---------------------------------------------------------------------------
(* Toolchain identity resolver: src/__init__.py *)

POSIX == "POSIX"
MSVC_COMPATIBLE == "MSVC_COMPATIBLE"

CompilerType == {POSIX, MSVC_COMPATIBLE}

\* variant: the family names compared for equality instead of as prefixes
normalizeCompilerNameExact(name) ==
    IF name = "gcc" \/ name = "g++" THEN "gcc"
    ELSE IF name = "clang" \/ name = "clang++" THEN "clang"
    ELSE IF name = "msvc" \/ name = "cl" THEN "msvc"
    ELSE IF name = "clang-cl" THEN "clang-cl"
    ELSE name

normalizeCompilerName(name) ==
    IF StartsWith(name, "gcc") \/ StartsWith(name, "g++") THEN "gcc"
    ELSE IF StartsWith(name, "clang") \/ StartsWith(name, "clang++") THEN "clang"
    ELSE IF StartsWith(name, "msvc") \/ name = "cl" THEN "msvc"
    ELSE IF StartsWith(name, "clang-cl") THEN "clang-cl"
    ELSE name

\* normalizeCompilerName reaches its warning (line 35): no family matched
normalizeWarns(name) ==
    /\ ~(StartsWith(name, "gcc") \/ StartsWith(name, "g++"))
    /\ ~(StartsWith(name, "clang") \/ StartsWith(name, "clang++"))
    /\ ~(StartsWith(name, "msvc") \/ name = "cl")
    /\ ~StartsWith(name, "clang-cl")

\* The system override of getCompiler: env["CXX"] / env["CC"] after lines 46-51.
\* An unset environment variable is None.
SystemOverride(systemCompiler, attempt, configured) ==
    IF systemCompiler /\ attempt # None /\ Strip(attempt) # ""
    THEN attempt
    ELSE configured

\* The identity getCompiler returns for the C++ invocation it1 = env["CXX"].
CompilerOf(it1) ==
    IF it1 = "$CC" \/ it1 = "cl"
    THEN <<"msvc", MSVC_COMPATIBLE>>
    ELSE IF SplitFirst(it1) = "clang-cl"
    THEN <<"clang-cl", MSVC_COMPATIBLE>>
    ELSE <<normalizeCompilerName(SplitFirst(it1)), POSIX>>

\* getCompiler(env): the environment's CXX and CC after the override, and the
\* identity returned.
getCompiler(systemCompiler, osCXX, osCC, cfgCXX, cfgCC) ==
    LET cxx == SystemOverride(systemCompiler, osCXX, cfgCXX)
        cc == SystemOverride(systemCompiler, osCC, cfgCC)
    IN  [CXX |-> cxx, CC |-> cc,
         compiler |-> CompilerOf(cxx)[1], argType |-> CompilerOf(cxx)[2]]

---------------------------------------------------------------------------
(* The toolchain behind an environment, as the probes see it: whether the  *)
(* <ciso646> header exists, which standard library the compiler selects    *)
(* and that library's version macro (0: the macro is not defined).         *)
(* A library defines its own macros only: __GLIBCXX__ / _GLIBCXX_RELEASE   *)
(* (libstdc++), _LIBCPP_VERSION (libc++), _MSVC_STL_VERSION /              *)
(* _MSVC_STL_UPDATE (MSVC STL).                                            *)

LIBSTDCXX == "libstdc++"
LIBCXX == "libc++"
MSVC_STL == "msvc-stl"

StdlibKind == {LIBSTDCXX, LIBCXX, MSVC_STL}

GlibcxxSupportThreshold == 8
GlibcxxLinkThreshold == 9
LibcppSupportThreshold == 7000
LibcppLinkThreshold == 9000
MsvcStlUpdateThreshold == 201803

GlibcxxReleases ==
    {0} \cup ((GlibcxxSupportThreshold - 1) .. (GlibcxxLinkThreshold + VersionsAbove))

LibcppVersions ==
    {LibcppSupportThreshold - 1, LibcppSupportThreshold}
        \cup (LibcppLinkThreshold .. (LibcppLinkThreshold + VersionsAbove))

MsvcStlUpdates ==
    {0} \cup (MsvcStlUpdateThreshold .. (MsvcStlUpdateThreshold + VersionsAbove))

NoCiso == [ciso |-> FALSE, lib |-> "none", ver |-> 0]
OtherStdlib == [ciso |-> TRUE, lib |-> "other", ver |-> 0]

\* a toolchain whose compiler cannot be started (no such executable)
Uninvocable == [ciso |-> TRUE, lib |-> "uninvocable", ver |-> 0]

Toolchains ==
    {NoCiso, OtherStdlib, Uninvocable}
        \cup {[ciso |-> TRUE, lib |-> LIBSTDCXX, ver |-> v] : v \in GlibcxxReleases}
        \cup {[ciso |-> TRUE, lib |-> LIBCXX, ver |-> v] : v \in LibcppVersions}
        \cup {[ciso |-> TRUE, lib |-> MSVC_STL, ver |-> v] : v \in MsvcStlUpdates}

\* value of a macro in an #if; an undefined macro evaluates to 0
MacroValue(tc, macro) ==
    CASE macro = "_GLIBCXX_RELEASE" -> IF tc.lib = LIBSTDCXX THEN tc.ver ELSE 0
      [] macro = "_LIBCPP_VERSION" -> IF tc.lib = LIBCXX THEN tc.ver ELSE 0
      [] macro = "_MSVC_STL_UPDATE" -> IF tc.lib = MSVC_STL THEN tc.ver ELSE 0
      [] OTHER -> 0

MacroDefined(tc, macro) ==
    CASE macro = "__GLIBCXX__" -> tc.lib = LIBSTDCXX
      [] macro = "_MSVC_STL_VERSION" -> tc.lib = MSVC_STL
      [] OTHER -> MacroValue(tc, macro) # 0

\* the compile command of the environment can be started
Invocable(tc) == tc.lib # Uninvocable.lib

\* context.TryCompile(snippet, ".cpp"): every snippet includes <ciso646> and
\* #errors on its preprocessor condition. TryCompile of SCons returns a
\* truth value and nothing else: a compile command that cannot be started
\* is a failed build like any other, and the callers receive false.
TryCompile(tc, snippet) ==
    /\ Invocable(tc)
    /\ tc.ciso
    /\ CASE snippet = "cisoProbe" -> TRUE
         [] snippet = "libstdcppTest" -> MacroDefined(tc, "__GLIBCXX__")
         [] snippet = "libcppTest" -> MacroDefined(tc, "_LIBCPP_VERSION")
         [] snippet = "msvcTest" -> MacroDefined(tc, "_MSVC_STL_VERSION")
         [] snippet = "libstdcpp.linkProbe" ->
                ~(MacroDefined(tc, "_GLIBCXX_RELEASE")
                    /\ MacroValue(tc, "_GLIBCXX_RELEASE") >= GlibcxxLinkThreshold)
         [] snippet = "libstdcpp.canUseProbe" ->
                ~(~MacroDefined(tc, "_GLIBCXX_RELEASE")
                    \/ MacroValue(tc, "_GLIBCXX_RELEASE") < GlibcxxSupportThreshold)
         [] snippet = "libcpp.linkProbe" ->
                ~(MacroValue(tc, "_LIBCPP_VERSION") >= LibcppLinkThreshold)
         [] snippet = "libcpp.canUseProbe" ->
                ~(MacroValue(tc, "_LIBCPP_VERSION") < LibcppSupportThreshold)
         [] snippet = "msvc.canUseProbe" ->
                ~(~MacroDefined(tc, "_MSVC_STL_UPDATE")
                    \/ MacroValue(tc, "_MSVC_STL_UPDATE") < MsvcStlUpdateThreshold)

\* one TryCompile call as logged in last.probes
Probe(tc, snippet) == [snippet |-> snippet, ok |-> TryCompile(tc, snippet)]

---------------------------------------------------------------------------
(* Probe engine: src/utils.py *)

\* variant: the else branch falls back to the MSVC STL instead of raising
SelectStdlibDefault(isLibstdcpp, isLibcpp, isMsvc) ==
    IF isLibstdcpp THEN LIBSTDCXX
    ELSE IF isLibcpp THEN LIBCXX
    ELSE MSVC_STL

\* variant: the libc++ and MSVC branches assign each other's kind
SelectStdlibMislabel(isLibstdcpp, isLibcpp, isMsvc) ==
    IF isLibstdcpp THEN LIBSTDCXX
    ELSE IF isLibcpp THEN MSVC_STL
    ELSE IF isMsvc THEN LIBCXX
    ELSE None

\* The kind the if/elif chain of detectStdlib selects (lines 54-61); None
\* stands for the RuntimeError of the else branch.
SelectStdlib(isLibstdcpp, isLibcpp, isMsvc) ==
    IF isLibstdcpp THEN LIBSTDCXX
    ELSE IF isLibcpp THEN LIBCXX
    ELSE IF isMsvc THEN MSVC_STL
    ELSE None

\* variant: the cache is never consulted
CacheHitNever(cached) == FALSE

\* `if (zenv.stdlib)` of line 12 (and its negation, line 81): None and the
\* empty string are false
CacheHit(cached) == cached # None /\ cached # ""

\* detectStdlib(context, zenv) on a handle whose cache is `cached` and whose
\* environment compiles with `tc`: the cache afterwards, the value returned,
\* whether it raised, and the TryCompile calls made.
detectStdlib(cached, tc) ==
    IF CacheHit(cached)
    THEN [stdlib |-> cached, result |-> cached, raised |-> FALSE, probes |-> <<>>]
    ELSE IF ~TryCompile(tc, "cisoProbe")
    THEN [stdlib |-> cached, result |-> None, raised |-> TRUE,
          probes |-> <<Probe(tc, "cisoProbe")>>]
    ELSE LET isLibstdcpp == TryCompile(tc, "libstdcppTest")
             isLibcpp == TryCompile(tc, "libcppTest")
             isMsvc == TryCompile(tc, "msvcTest")
             stdlib == SelectStdlib(isLibstdcpp, isLibcpp, isMsvc)
             run == <<Probe(tc, "cisoProbe"), Probe(tc, "libstdcppTest"),
                      Probe(tc, "libcppTest"), Probe(tc, "msvcTest")>>
         IN  IF stdlib = None
             THEN [stdlib |-> cached, result |-> None, raised |-> TRUE, probes |-> run]
             ELSE [stdlib |-> stdlib, result |-> stdlib, raised |-> FALSE, probes |-> run]

\* variant: libstdc++ link need inferred from support instead of probed
FilesystemProbesInferred(stdlib, tc, system) ==
    IF stdlib = LIBSTDCXX
    THEN [supportsFilesystem |-> TryCompile(tc, "libstdcpp.canUseProbe"),
          needsLink |-> ~TryCompile(tc, "libstdcpp.canUseProbe"),
          probes |-> <<Probe(tc, "libstdcpp.canUseProbe")>>]
    ELSE IF stdlib = LIBCXX
    THEN IF system = "Darwin"
         THEN [supportsFilesystem |-> TryCompile(tc, "libcpp.canUseProbe"),
               needsLink |-> FALSE,
               probes |-> <<Probe(tc, "libcpp.canUseProbe")>>]
         ELSE [supportsFilesystem |-> TryCompile(tc, "libcpp.canUseProbe"),
               needsLink |-> TryCompile(tc, "libcpp.linkProbe"),
               probes |-> <<Probe(tc, "libcpp.linkProbe"),
                            Probe(tc, "libcpp.canUseProbe")>>]
    ELSE [supportsFilesystem |-> TryCompile(tc, "msvc.canUseProbe"),
          needsLink |-> FALSE,
          probes |-> <<Probe(tc, "msvc.canUseProbe")>>]

\* The branch of detectFilesystem for the cached stdlib (lines 84-144):
\* (supportsFilesystem, needsLink) and the TryCompile calls, in call order.
FilesystemProbes(stdlib, tc, system) ==
    IF stdlib = LIBSTDCXX
    THEN [supportsFilesystem |-> TryCompile(tc, "libstdcpp.canUseProbe"),
          needsLink |-> TryCompile(tc, "libstdcpp.linkProbe"),
          probes |-> <<Probe(tc, "libstdcpp.linkProbe"),
                       Probe(tc, "libstdcpp.canUseProbe")>>]
    ELSE IF stdlib = LIBCXX
    THEN IF system = "Darwin"
         THEN [supportsFilesystem |-> TryCompile(tc, "libcpp.canUseProbe"),
               needsLink |-> FALSE,
               probes |-> <<Probe(tc, "libcpp.canUseProbe")>>]
         ELSE [supportsFilesystem |-> TryCompile(tc, "libcpp.canUseProbe"),
               needsLink |-> TryCompile(tc, "libcpp.linkProbe"),
               probes |-> <<Probe(tc, "libcpp.linkProbe"),
                            Probe(tc, "libcpp.canUseProbe")>>]
    ELSE [supportsFilesystem |-> TryCompile(tc, "msvc.canUseProbe"),
          needsLink |-> FALSE,
          probes |-> <<Probe(tc, "msvc.canUseProbe")>>]

\* detectFilesystem(context, zenv): runs detectStdlib first when the cache is
\* empty; a raise of detectStdlib propagates.
detectFilesystem(cached, tc, system) ==
    LET pre == IF ~CacheHit(cached)
               THEN detectStdlib(cached, tc)
               ELSE [stdlib |-> cached, result |-> cached, raised |-> FALSE,
                     probes |-> <<>>]
        fs == FilesystemProbes(pre.stdlib, tc, system)
    IN  IF pre.raised
        THEN [stdlib |-> pre.stdlib, result |-> None, raised |-> TRUE,
              probes |-> pre.probes]
        ELSE [stdlib |-> pre.stdlib,
              result |-> <<fs.supportsFilesystem, fs.needsLink>>,
              raised |-> FALSE, probes |-> pre.probes \o fs.probes]

---------------------------------------------------------------------------
(* Flag and path derivation: getEnvironment, src/__init__.py *)

\* s.split(" "): the pieces between single spaces, empty pieces included
RECURSIVE Split(_)
Split(s) ==
    IF Find(s, " ") = 0 THEN <<s>>
    ELSE <<SubSeq(s, 1, Find(s, " ") - 1)>>
            \o Split(SubSeq(s, Find(s, " ") + 1, Len(s)))

\* env["PLATFORM"] of the SCons Environment on the host system
PlatformOf(system) ==
    CASE system = "Windows" -> "win32"
      [] system = "Darwin" -> "darwin"
      [] OTHER -> "posix"

\* env["debug"]: the BoolVariable "debug", whose default is LUNASCONS_DEBUG
\* (line 76); the defaultDebug parameter is not read.
DebugOf(a) ==
    IF a.userDebug = "unset" THEN a.lunasconsDebug ELSE a.userDebug = "true"

\* the string compileFlags of lines 131-150
CompileFlagsString(argType, stdlib, debug, coverage, dynamic) ==
    IF argType = POSIX
    THEN "-std=" \o stdlib \o " -pedantic -Wall -Wextra -Wno-c++11-narrowing"
            \o (IF debug
                THEN " -g -O0 " \o (IF coverage THEN " --coverage " ELSE "")
                ELSE " -O3 ")
    ELSE "/std:" \o stdlib \o " /W3 /EHsc /FS "
            \o (IF debug
                THEN ""
                ELSE " /O2 " \o (IF ~dynamic THEN "/MT" ELSE "/MD") \o " ")

\* CXXFLAGS after line 151
DerivedCxxFlags(argType, stdlib, debug, coverage, dynamic) ==
    (IF argType # POSIX /\ debug
     THEN <<(IF ~dynamic THEN "/MTd" ELSE "MDd"), "/Zi">>
     ELSE <<>>)
        \o Split(CompileFlagsString(argType, stdlib, debug, coverage, dynamic))

\* variant: the coverage link flag follows the coverage option alone
DerivedLinkFlagsCoverageAlone(argType, debug, coverage) ==
    IF argType = POSIX
    THEN IF coverage THEN <<"--coverage">> ELSE <<>>
    ELSE IF debug THEN <<"/DEBUG">> ELSE <<>>

\* LINKFLAGS after line 151
DerivedLinkFlags(argType, debug, coverage) ==
    IF argType = POSIX
    THEN IF debug /\ coverage THEN <<"--coverage">> ELSE <<>>
    ELSE IF debug THEN <<"/DEBUG">> ELSE <<>>

\* the CXXFLAGS appended by the sanitizer block, lines 154-162
SanitizerCxxFlags(argType, platform, compiler, debug, useSan) ==
    IF debug /\ useSan
    THEN (IF argType = POSIX THEN <<"-fsanitize=undefined">> ELSE <<>>)
            \o (IF platform = "win32" /\ compiler # "msvc"
                THEN <<"-fsanitize-undefined-trap-on-error">>
                ELSE <<>>)
    ELSE <<>>

\* variant: the sanitizer link flag is added on every platform
SanitizerLinkFlagsAnyPlatform(platform, debug, useSan) ==
    IF debug /\ useSan THEN <<"-fsanitize=undefined">> ELSE <<>>

\* the LINKFLAGS appended by the sanitizer block
SanitizerLinkFlags(platform, debug, useSan) ==
    IF debug /\ useSan /\ platform # "win32"
    THEN <<"-fsanitize=undefined">>
    ELSE <<>>

\* variant: the empty build directory is not checked
BuildDirAccepted(path) == FALSE

\* getEnvironment raises (lines 86-88, 126-128) instead of returning a handle
BuildDirRejected(path) == path = ""

getEnvironmentRaises(a) ==
    \/ a.customVariables = "other"
    \/ BuildDirRejected(a.buildDir)

\* the SCons Environment getEnvironment hands to the ZEnv
DerivedEnvironment(a) ==
    LET gc == getCompiler(a.systemCompiler, a.osCXX, a.osCC, a.cfgCXX, a.cfgCC)
        debug == DebugOf(a)
        platform == PlatformOf(a.system)
    IN  [CXX |-> gc.CXX, CC |-> gc.CC,
         PLATFORM |-> platform,
         system |-> a.system,
         debug |-> debug,
         coverage |-> a.coverage,
         dynamic |-> a.dynamic,
         buildDir |-> a.buildDir,
         mingw |-> (platform = "win32"
                        /\ gc.compiler # "clang-cl" /\ gc.compiler # "msvc"),
         CXXFLAGS |-> DerivedCxxFlags(gc.argType, a.stdlib, debug, a.coverage, a.dynamic)
                        \o SanitizerCxxFlags(gc.argType, platform, gc.compiler,
                                              debug, a.useSan),
         LINKFLAGS |-> DerivedLinkFlags(gc.argType, debug, a.coverage)
                        \o SanitizerLinkFlags(platform, debug, a.useSan),
         LIBS |-> <<>>,
         LIBPATH |-> <<>>,
         toolchain |-> a.toolchain]

---------------------------------------------------------------------------
(* Configuration handle: src/ZEnv.py *)

ListFields == {"sanitizers", "libraries", "compilerFlags"}

Handles == 1 .. MaxHandles

Live == DOMAIN zenvs

\* the next object identifier; handles, their environments and their lists
\* are never freed
NewId == Cardinality(Live) + 1

\* ZEnv.__init__: every list attribute is a fresh empty list of the new object
NewZEnv(id, environment, path, debug, compiler, argType) ==
    [environment |-> environment,
     path |-> path,
     debug |-> debug,
     compiler |-> compiler,
     argType |-> argType,
     sanitizers |-> <<id, "sanitizers">>,
     libraries |-> <<id, "libraries">>,
     compilerFlags |-> <<id, "compilerFlags">>,
     variantDir |-> "",
     stdlib |-> None]

\* the heap with the three lists ZEnv.__init__ allocates for object id
AllocLists(heap, id) ==
    [l \in DOMAIN heap \cup {<<id, f>> : f \in ListFields} |->
        IF l \in DOMAIN heap THEN heap[l] ELSE <<>>]

\* the function with no entry: an empty heap, no keyword arguments
Empty == [x \in {} |-> None]

\* f extended (or overwritten) at k with v
Put(f, k, v) == [x \in DOMAIN f \cup {k} |-> IF x = k THEN v ELSE f[x]]

Call(op, zenv, args, raised, result, probes) ==
    [op |-> op, zenv |-> zenv, args |-> args, raised |-> raised,
     result |-> result, probes |-> probes]

\* getEnvironment(defaultDebug, libraries, stdlib, useSan, customVariables)
\* under the command-line variables, process environment and host of `a`
GetEnvironment(a) ==
    /\ NewId <= MaxHandles
    /\ IF getEnvironmentRaises(a)
       THEN /\ last' = Call("getEnvironment", 0, a, TRUE, None, <<>>)
            /\ UNCHANGED <<zenvs, environments, lists, contexts>>
       ELSE LET gc == getCompiler(a.systemCompiler, a.osCXX, a.osCC,
                                  a.cfgCXX, a.cfgCC)
            IN  /\ environments' = Put(environments, NewId, DerivedEnvironment(a))
                /\ lists' = AllocLists(lists, NewId)
                /\ zenvs' = Put(zenvs, NewId,
                                NewZEnv(NewId, NewId, a.buildDir, DebugOf(a),
                                        gc.compiler, gc.argType))
                /\ last' = Call("getEnvironment", NewId, a, FALSE, NewId, <<>>)
                /\ UNCHANGED contexts

\* getEnvironment of src/EnvMod.py: the variable declarations lack a comma
\* after the "buildDirectory" tuple (lines 356-357), so evaluating them
\* calls a tuple and raises TypeError before any environment exists
EnvModGetEnvironment(a) ==
    /\ last' = Call("EnvMod.getEnvironment", 0, a, TRUE, None, <<>>)
    /\ UNCHANGED <<zenvs, environments, lists, contexts>>

\* environment.Clone(**kwargs) of SCons: a copy of the construction
\* variables with the keyword arguments replacing theirs
SConsClone(env, kwargs) ==
    [k \in DOMAIN env |-> IF k \in DOMAIN kwargs THEN kwargs[k] ELSE env[k]]

\* variant: the clone keeps the parent's environment object
ClonedEnvironmentRefParent(parentRef, newRef) == parentRef

\* the environment object the clone holds: the one environment.Clone() made
ClonedEnvironmentRef(parentRef, newRef) == newRef

\* the list object a clone's attribute names after lines 232-234: the
\* parent's own list object, not a copy
ClonedListRef(parentRef, newRef) == parentRef

\* variant: the clone starts with an empty cache
ClonedStdlibNone(parentStdlib) == None

\* the stdlib cache a clone starts with, line 236
ClonedStdlib(parentStdlib) == parentStdlib

\* ZEnv.Clone(*args, **kwargs)
Clone(h, kwargs) ==
    /\ h \in Live
    /\ NewId <= MaxHandles
    /\ LET p == zenvs[h]
            fresh == NewZEnv(NewId, ClonedEnvironmentRef(p.environment, NewId),
                             p.path, p.debug, p.compiler, p.argType)
       IN  /\ environments' = Put(environments, NewId,
                                   SConsClone(environments[p.environment], kwargs))
           /\ lists' = AllocLists(lists, NewId)
           /\ zenvs' = Put(zenvs, NewId,
                  [fresh EXCEPT
                     !.sanitizers = ClonedListRef(p.sanitizers, fresh.sanitizers),
                     !.libraries = ClonedListRef(p.libraries, fresh.libraries),
                     !.compilerFlags = ClonedListRef(p.compilerFlags,
                                                     fresh.compilerFlags),
                     !.variantDir = p.variantDir,
                     !.stdlib = ClonedStdlib(p.stdlib)])
           /\ last' = Call("Clone", h, kwargs, FALSE, NewId, <<>>)
           /\ UNCHANGED contexts

\* aLibs of withLibraries, lines 97-101
ALibs(libraries, isList) == IF isList THEN libraries ELSE <<libraries>>

\* ZEnv.withLibraries(libraries, append)
WithLibraries(h, libraries, isList, append) ==
    /\ h \in Live
    /\ LET e == zenvs[h].environment
            aLibs == ALibs(libraries, isList)
       IN  /\ Len(environments[e].LIBS) + Len(aLibs) <= MaxLibs
           /\ environments' = [environments EXCEPT ![e].LIBS =
                                  IF append THEN @ \o aLibs ELSE aLibs \o @]
    /\ last' = Call("withLibraries", h, <<libraries, append>>, FALSE, None, <<>>)
    /\ UNCHANGED <<zenvs, lists, contexts>>

\* ZEnv.appendLibPath(libPath); isStr: type(libPath) is str
AppendLibPath(h, libPath, isStr) ==
    /\ h \in Live
    /\ IF ~isStr
       THEN /\ last' = Call("appendLibPath", h, libPath, TRUE, None, <<>>)
            /\ UNCHANGED <<zenvs, environments, lists, contexts>>
       ELSE LET e == zenvs[h].environment
            IN  /\ Len(environments[e].LIBPATH) < MaxLibs
                /\ environments' = [environments EXCEPT ![e].LIBPATH =
                                       @ \o <<libPath>>]
                /\ last' = Call("appendLibPath", h, libPath, FALSE, None, <<>>)
                /\ UNCHANGED <<zenvs, lists, contexts>>

\* zenv.<field>.append(x) by a build script: the list attributes of
\* ZEnv.__init__ are public and nothing else fills them
AppendOwnList(h, field, x) ==
    /\ h \in Live
    /\ field \in ListFields
    /\ Len(lists[zenvs[h][field]]) < MaxLibs
    /\ lists' = [lists EXCEPT ![zenvs[h][field]] = Append(@, x)]
    /\ last' = Call("append", h, <<field, x>>, FALSE, None, <<>>)
    /\ UNCHANGED <<zenvs, environments, contexts>>

\* what a script reads through zenv.<field>, zenv["LIBS"], zenv["LIBPATH"]
OwnList(h, field) == lists[zenvs[h][field]]
EnvVar(h, key) == environments[zenvs[h].environment][key]

---------------------------------------------------------------------------
(* The probes run on a handle: ConfigContext of src/utils.py calls them    *)
(* with its own zenv.                                                      *)

\* config.detectStdlib(zenv)
DetectStdlib(h) ==
    /\ h \in Live
    /\ LET r == detectStdlib(zenvs[h].stdlib, EnvVar(h, "toolchain"))
       IN  /\ zenvs' = [zenvs EXCEPT ![h].stdlib = r.stdlib]
           /\ last' = Call("detectStdlib", h, None, r.raised, r.result, r.probes)
    /\ UNCHANGED <<environments, lists, contexts>>

\* config.detectFilesystem(zenv)
DetectFilesystem(h) ==
    /\ h \in Live
    /\ LET r == detectFilesystem(zenvs[h].stdlib, EnvVar(h, "toolchain"),
                                 EnvVar(h, "system"))
       IN  /\ zenvs' = [zenvs EXCEPT ![h].stdlib = r.stdlib]
           /\ last' = Call("detectFilesystem", h, None, r.raised, r.result, r.probes)
    /\ UNCHANGED <<environments, lists, contexts>>

\* variant: the libstdc++ helper library is linked for every stdlib
FilesystemLibraryStdcxxOnly(stdlib) == "stdc++fs"

\* the library configureFilesystem links, lines 201-208
FilesystemLibrary(stdlib) == IF stdlib = LIBSTDCXX THEN "stdc++fs" ELSE "c++fs"

\* ConfigContext.configureFilesystem()
ConfigureFilesystem(h) ==
    /\ h \in Live
    /\ LET tc == EnvVar(h, "toolchain")
           e == zenvs[h].environment
           r1 == detectStdlib(zenvs[h].stdlib, tc)
           r2 == detectFilesystem(r1.stdlib, tc, EnvVar(h, "system"))
       IN  IF r1.raised
           THEN /\ last' = Call("configureFilesystem", h, None, TRUE, None, r1.probes)
                /\ UNCHANGED <<zenvs, environments, lists, contexts>>
           ELSE /\ zenvs' = [zenvs EXCEPT ![h].stdlib = r2.stdlib]
                /\ UNCHANGED <<lists, contexts>>
                /\ IF ~r2.result[1]
                   THEN /\ last' = Call("configureFilesystem", h, None, TRUE, None,
                                        r1.probes \o r2.probes)
                        /\ UNCHANGED environments
                   ELSE /\ last' = Call("configureFilesystem", h, None, FALSE, None,
                                        r1.probes \o r2.probes)
                        /\ IF r2.result[2]
                           THEN /\ Len(environments[e].LIBS) < MaxLibs
                                /\ environments' = [environments EXCEPT ![e].LIBS =
                                        @ \o ALibs(<<FilesystemLibrary(r2.stdlib)>>, TRUE)]
                           ELSE UNCHANGED environments

\* one call of getCompiler on an environment with the given variables
GetCompilerCall(systemCompiler, osCXX, osCC, cfgCXX, cfgCC) ==
    /\ last' = Call("getCompiler", 0,
                    [systemCompiler |-> systemCompiler, osCXX |-> osCXX,
                     osCC |-> osCC, cfgCXX |-> cfgCXX, cfgCC |-> cfgCC],
                    FALSE,
                    getCompiler(systemCompiler, osCXX, osCC, cfgCXX, cfgCC),
                    <<>>)
    /\ UNCHANGED <<zenvs, environments, lists, contexts>>

---------------------------------------------------------------------------
(* ConfigContext: src/utils.py; ZEnv.configure: src/ZEnv.py                *)
(* The attribute config of a context is absent until __enter__ (__init__   *)
(* does not set it), the SConf object of Configure() while entered, and    *)
(* None after __exit__. Of the SConf object the model keeps the tests      *)
(* registered on it and whether Finish() has been called.                  *)

Contexts == 1 .. MaxContexts

LiveContexts == DOMAIN contexts

NewContext == Cardinality(LiveContexts) + 1

\* ConfigContext.__init__: only the handle is stored
NewConfigContext(h) ==
    [zenv |-> h, config |-> "unset", tests |-> Empty, active |-> FALSE]

\* the tests __enter__ registers, lines 159-162
BuiltinTests ==
    [n \in {"detectStdlib", "detectFilesystem"} |-> n]

\* the attributes the SConf object has of its own, as far as this file
\* uses them: config.AddTest, config.AddTests, config.Finish
SConfMethods == {"AddTest", "AddTests", "Finish"}

\* hasattr(self.config, name), line 188; hasattr(None, name) is false
HasAttr(ctx, tests, name) ==
    ctx.config = "SConf" /\ name \in (DOMAIN tests \cup SConfMethods)

\* a Configure() exists that has not been finished: SCons refuses another
ConfigureActive == \E c \in LiveContexts : contexts[c].active

\* ZEnv.configure()
Configure(h) ==
    /\ h \in Live
    /\ NewContext <= MaxContexts
    /\ contexts' = Put(contexts, NewContext, NewConfigContext(h))
    /\ last' = Call("configure", h, None, FALSE, NewContext, <<>>)
    /\ UNCHANGED <<zenvs, environments, lists>>

\* ConfigContext.__enter__(): Configure() raises while another Configure()
\* is active, before self.config is assigned
Enter(c) ==
    /\ c \in LiveContexts
    /\ IF ConfigureActive
       THEN /\ last' = Call("enter", contexts[c].zenv, c, TRUE, None, <<>>)
            /\ UNCHANGED contexts
       ELSE /\ contexts' = [contexts EXCEPT ![c].config = "SConf",
                                            ![c].tests = BuiltinTests,
                                            ![c].active = TRUE]
            /\ last' = Call("enter", contexts[c].zenv, c, FALSE, c, <<>>)
    /\ UNCHANGED <<zenvs, environments, lists>>

\* ConfigContext.__exit__(): config.Finish() raises AttributeError when
\* there is no SConf object and UserError when it was finished already;
\* self.config = None is reached only when Finish() returned
Exit(c) ==
    /\ c \in LiveContexts
    /\ IF contexts[c].config = "SConf" /\ contexts[c].active
       THEN /\ contexts' = [contexts EXCEPT ![c].config = "None",
                                            ![c].tests = Empty,
                                            ![c].active = FALSE]
            /\ last' = Call("exit", contexts[c].zenv, c, FALSE, None, <<>>)
       ELSE /\ last' = Call("exit", contexts[c].zenv, c, TRUE, None, <<>>)
            /\ UNCHANGED contexts
    /\ UNCHANGED <<zenvs, environments, lists>>

\* a registered callback other than the two built-in tests: it compiles
\* the empty program with the context it is given
CallbackProbe(tc, callback) == [snippet |-> callback, ok |-> Invocable(tc)]

\* ConfigContext.test(name, *args, callback = ...): `callback` is None when
\* the keyword is absent, g is the handle passed in *args (0: none passed).
\* The test runs with the CheckContext of the SConf object, that is on the
\* environment of the context's own handle, and with the arguments of the
\* caller. A test called after Finish() raises; so does a call with the
\* wrong number of arguments.
Test(c, name, callback, g) ==
    /\ c \in LiveContexts
    /\ g \in Live \cup {0}
    /\ LET ctx == contexts[c]
           h == ctx.zenv
           a == [context |-> c, name |-> name, callback |-> callback, zenv |-> g]
           tc == EnvVar(h, "toolchain")
           tests == IF callback # None /\ ctx.config = "SConf"
                    THEN Put(ctx.tests, name, callback)
                    ELSE ctx.tests
           registered == [contexts EXCEPT ![c].tests = tests]
           Raises ==
               /\ last' = Call("test", h, a, TRUE, [ran |-> None, value |-> None], <<>>)
               /\ UNCHANGED <<zenvs, environments, lists>>
       IN  IF ~HasAttr(ctx, tests, name)
           THEN Raises /\ contexts' = registered
           ELSE IF name \notin DOMAIN tests
           THEN IF name = "Finish" /\ g = 0 /\ ctx.active
                THEN /\ contexts' = [registered EXCEPT ![c].active = FALSE]
                     /\ last' = Call("test", h, a, FALSE,
                                     [ran |-> "Finish", value |-> None], <<>>)
                     /\ UNCHANGED <<zenvs, environments, lists>>
                ELSE Raises /\ contexts' = registered
           ELSE IF ~ctx.active
           THEN Raises /\ contexts' = registered
           ELSE IF tests[name] = "detectStdlib"
           THEN IF g = 0
                THEN Raises /\ contexts' = registered
                ELSE LET r == detectStdlib(zenvs[g].stdlib, tc)
                     IN  /\ zenvs' = [zenvs EXCEPT ![g].stdlib = r.stdlib]
                         /\ last' = Call("test", h, a, r.raised,
                                         [ran |-> "detectStdlib", value |-> r.result],
                                         r.probes)
                         /\ contexts' = registered
                         /\ UNCHANGED <<environments, lists>>
           ELSE IF tests[name] = "detectFilesystem"
           THEN IF g = 0
                THEN Raises /\ contexts' = registered
                ELSE LET r == detectFilesystem(zenvs[g].stdlib, tc,
                                               EnvVar(h, "system"))
                     IN  /\ zenvs' = [zenvs EXCEPT ![g].stdlib = r.stdlib]
                         /\ last' = Call("test", h, a, r.raised,
                                         [ran |-> "detectFilesystem",
                                          value |-> r.result],
                                         r.probes)
                         /\ contexts' = registered
                         /\ UNCHANGED <<environments, lists>>
           ELSE IF g # 0
           THEN Raises /\ contexts' = registered
           ELSE /\ last' = Call("test", h, a, FALSE,
                                [ran |-> tests[name], value |-> None],
                                <<CallbackProbe(tc, tests[name])>>)
                /\ contexts' = registered
                /\ UNCHANGED <<zenvs, environments, lists>>

\* ConfigContext.configureFilesystem() of context c: the attribute lookups
\* on self.config raise when there is no SConf object, the tests raise
\* when it was finished; otherwise the detections run on self.zenv
ContextConfigureFilesystem(c) ==
    /\ c \in LiveContexts
    /\ IF contexts[c].config = "SConf" /\ contexts[c].active
       THEN ConfigureFilesystem(contexts[c].zenv)
       ELSE /\ last' = Call("configureFilesystem", contexts[c].zenv, None, TRUE,
                            None, <<>>)
            /\ UNCHANGED <<zenvs, environments, lists, contexts>>

---------------------------------------------------------------------------
(* Inputs *)

ExeNames ==
    {"$CC", "cl", "clang-cl", "clang", "clang++", "g++", "gcc", "gcc-9",
     "msvc", "icc"}

Leading == {"", " "}

Trailing == {"", " -target foo", " ", "\t-O2"}

CompilerStrings == {l \o n \o t : l \in Leading, n \in ExeNames, t \in Trailing}

OsValues == CompilerStrings \cup {None, "", " \t"}

ConfiguredCxx == {"g++", "$CC", "clang++"}

GccLinux ==
    [ciso |-> TRUE, lib |-> LIBSTDCXX, ver |-> GlibcxxLinkThreshold]

BaseArgs ==
    [defaultDebug |-> TRUE, useSan |-> TRUE, stdlib |-> "c++17",
     customVariables |-> "None",
     userDebug |-> "unset", lunasconsDebug |-> FALSE,
     systemCompiler |-> TRUE, buildDir |-> "build/",
     dynamic |-> FALSE, coverage |-> FALSE,
     osCXX |-> None, osCC |-> None, cfgCXX |-> "g++", cfgCC |-> "gcc",
     system |-> "Linux", toolchain |-> GccLinux]

BuildDirs == {"", "build/", "out"}

\* the calls of the handle specification: the build directory varies
HandleArgs == {[BaseArgs EXCEPT !.buildDir = d] : d \in BuildDirs}

\* the calls of the probe specification: the toolchain and the host vary
ProbeArgs ==
    {[BaseArgs EXCEPT !.toolchain = tc, !.system = s] :
        tc \in Toolchains, s \in {"Linux", "Darwin"}}

\* the calls of the flag specification: every option varies
EnvArgs ==
    {[BaseArgs EXCEPT !.defaultDebug = dd, !.useSan = us, !.customVariables = cv,
                      !.userDebug = ud, !.lunasconsDebug = ld, !.buildDir = bd,
                      !.dynamic = dy, !.coverage = co, !.osCXX = ox,
                      !.cfgCXX = cx, !.system = sy] :
        dd \in BOOLEAN, us \in BOOLEAN, cv \in {"None", "list", "other"},
        ud \in {"unset", "true", "false"}, ld \in BOOLEAN, bd \in BuildDirs,
        dy \in BOOLEAN, co \in BOOLEAN,
        ox \in {None, "clang-cl", "cl /nologo"}, cx \in ConfiguredCxx,
        sy \in {"Linux", "Darwin", "Windows"}}

LibNames == {"a", "b"}

LibPaths == {"lib/"}

\* keyword arguments of Clone: none, or a change of the toolchain the
\* cloned environment compiles with
CloneKwargs == {Empty, [toolchain |-> OtherStdlib]}

\* the calls of the context specification: a libstdc++ that needs the
\* helper library, one that does not, and a compiler that does not start
ContextArgs ==
    {[BaseArgs EXCEPT !.toolchain = tc] :
        tc \in {GccLinux, [GccLinux EXCEPT !.ver = GlibcxxSupportThreshold],
                Uninvocable}}

\* the test() calls of a build script: <<name, callback, handle passed>>
TestCalls ==
    {<<n, None, g>> : n \in {"detectStdlib", "detectFilesystem"}, g \in Handles}
        \cup {<<"myNewTest", None, 0>>, <<"myNewTest", "f", 0>>,
              <<"Finish", None, 0>>}

---------------------------------------------------------------------------
(* Specifications *)

Init ==
    /\ zenvs = Empty
    /\ environments = Empty
    /\ lists = Empty
    /\ contexts = Empty
    /\ last = Call("none", 0, None, FALSE, None, <<>>)

\* entries appended so far to the collections of all handles
RECURSIVE SumLen(_, _)
SumLen(f, keys) ==
    IF keys = {} THEN 0
    ELSE LET k == CHOOSE x \in keys : TRUE
         IN  Len(f[k]) + SumLen(f, keys \ {k})

Appended ==
    SumLen(lists, DOMAIN lists)
        + SumLen([e \in DOMAIN environments |-> environments[e].LIBS],
                 DOMAIN environments)
        + SumLen([e \in DOMAIN environments |-> environments[e].LIBPATH],
                 DOMAIN environments)

\* Handles: one build entry point, its clones and what scripts append to
\* them, MaxLibs entries in all
Next ==
    \/ last.op = "none" /\ \E a \in HandleArgs : GetEnvironment(a)
    \/ \E h \in Handles : Clone(h, Empty)
    \/ \E h \in Handles, l \in LibNames, append \in BOOLEAN :
            Appended < MaxLibs /\ WithLibraries(h, <<l>>, TRUE, append)
    \/ \E h \in Handles, l \in LibNames :
            Appended < MaxLibs /\ WithLibraries(h, l, FALSE, TRUE)
    \/ \E h \in Handles, p \in LibPaths, isStr \in BOOLEAN :
            Appended < MaxLibs /\ AppendLibPath(h, p, isStr)
    \/ \E h \in Handles, f \in ListFields :
            Appended < MaxLibs /\ AppendOwnList(h, f, "x")

Spec == Init /\ [][Next]_vars

\* Probes: one build entry point on any toolchain, its clones, detections
NextProbe ==
    \/ last.op = "none" /\ \E a \in ProbeArgs : GetEnvironment(a)
    \/ \E h \in Handles, kw \in CloneKwargs : Clone(h, kw)
    \/ \E h \in Handles : DetectStdlib(h)
    \/ \E h \in Handles : DetectFilesystem(h)
    \/ \E h \in Handles : ConfigureFilesystem(h)

SpecProbe == Init /\ [][NextProbe]_vars

\* every context made so far has been left through __exit__
AllExited == \A c \in LiveContexts : contexts[c].config = "None"

\* Contexts: one build entry point, its clones, the ConfigContext objects
\* obtained from them, one after the other, and what a script calls on
\* those
NextContext ==
    \/ last.op = "none" /\ \E a \in ContextArgs : GetEnvironment(a)
    \/ \E h \in Handles, kw \in CloneKwargs : Clone(h, kw)
    \/ \E h \in Handles : AllExited /\ Configure(h)
    \/ \E c \in Contexts : Enter(c)
    \/ \E c \in Contexts, t \in TestCalls : Test(c, t[1], t[2], t[3])
    \/ \E c \in Contexts : ContextConfigureFilesystem(c)
    \/ \E c \in Contexts : Exit(c)

SpecContext == Init /\ [][NextContext]_vars

\* Identity resolution: getCompiler on every input
NextCompiler ==
    last.op = "none" /\ \E sc \in BOOLEAN, ox \in OsValues, oc \in {None, "gcc"},
       cx \in ConfiguredCxx :
        GetCompilerCall(sc, ox, oc, cx, "cc")

SpecCompiler == Init /\ [][NextCompiler]_vars

\* Flag derivation: one call of getEnvironment on every input
NextEnv ==
    \/ last.op = "none" /\ \E a \in EnvArgs : GetEnvironment(a)
    \/ last.op = "none" /\ \E a \in EnvArgs : EnvModGetEnvironment(a)

SpecEnv == Init /\ [][NextEnv]_vars

---------------------------------------------------------------------------
(* Properties *)

DetectOps == {"detectStdlib", "detectFilesystem", "configureFilesystem"}

StdlibSnippets == {"cisoProbe", "libstdcppTest", "libcppTest", "msvcTest"}

\* the kind each discriminating probe stands for
KindOfProbe ==
    [s \in {"libstdcppTest", "libcppTest", "msvcTest"} |->
        CASE s = "libstdcppTest" -> LIBSTDCXX
          [] s = "libcppTest" -> LIBCXX
          [] s = "msvcTest" -> MSVC_STL]

\* the snippets of a probe log
SnippetsOf(log) == {log[i].snippet : i \in 1 .. Len(log)}

\* C1: once a handle's stdlib cache is set, the cache never changes and
\* every detectStdlib call on that handle makes no TryCompile call, does not
\* raise, and returns the cached kind.
C1_DetectStdlibIdempotent ==
    [][\A h \in Live :
          zenvs[h].stdlib \in StdlibKind =>
            /\ zenvs'[h].stdlib = zenvs[h].stdlib
            /\ (last'.op = "detectStdlib" /\ last'.zenv = h) =>
                  /\ last'.probes = <<>>
                  /\ ~last'.raised
                  /\ last'.result = zenvs[h].stdlib]_vars

\* a detectStdlib call answered from the cache of a handle whose own
\* toolchain had been probed
C1_Witness ==
    /\ last.op = "detectStdlib"
    /\ ~last.raised
    /\ last.probes = <<>>
    /\ last.zenv \in Live
    /\ zenvs[last.zenv].stdlib = last.result
    /\ EnvVar(last.zenv, "toolchain").lib = last.result

\* C2: withLibraries and appendLibPath on one handle leave the LIBS and
\* LIBPATH of every other handle (its parent, its clones) unchanged.
C2_CloneLibsIndependent ==
    [][\A g \in Live :
          (last'.op \in {"withLibraries", "appendLibPath"} /\ last'.zenv # g) =>
            /\ environments'[zenvs'[g].environment].LIBS
                  = environments[zenvs[g].environment].LIBS
            /\ environments'[zenvs'[g].environment].LIBPATH
                  = environments[zenvs[g].environment].LIBPATH]_vars

\* after Clone, a library was appended to the clone only and a search path
\* to the parent only
C2_Witness ==
    /\ {1, 2} \subseteq Live
    /\ Len(EnvVar(2, "LIBS")) > Len(EnvVar(1, "LIBS"))
    /\ Len(EnvVar(1, "LIBPATH")) > Len(EnvVar(2, "LIBPATH"))

\* C3 (as claimed): appending to a list attribute (libraries,
\* compilerFlags, sanitizers) of one handle is not observable through any
\* other handle.
C3_OwnListsIndependent ==
    [][\A g \in Live :
          (last'.op = "append" /\ last'.zenv # g) =>
            \A f \in ListFields : lists'[zenvs'[g][f]] = lists[zenvs[g][f]]]_vars

\* C4: a clone starts with the stdlib cache its parent has at the time of
\* the Clone; a detection on a handle with an empty cache runs the baseline
\* probe itself, one on a handle with a set cache runs no stdlib probe; no
\* call changes the cache of a handle other than the one it is made on.
C4_StdlibCacheAcrossForks ==
    [][/\ (last'.op = "Clone" /\ last'.result \notin Live) =>
            zenvs'[last'.result].stdlib = zenvs[last'.zenv].stdlib
       /\ \A h \in Live :
            /\ (last'.op \in DetectOps /\ last'.zenv = h) =>
                  IF zenvs[h].stdlib = None
                  THEN /\ Len(last'.probes) >= 1
                       /\ last'.probes[1].snippet = "cisoProbe"
                  ELSE SnippetsOf(last'.probes) \cap StdlibSnippets = {}
            /\ ~(last'.op \in DetectOps /\ last'.zenv = h) =>
                  zenvs'[h].stdlib = zenvs[h].stdlib]_vars

\* a clone made before detection has detected on its own and the parent's
\* cache is still empty
C4_Witness ==
    /\ {1, 2} \subseteq Live
    /\ zenvs[1].stdlib = None
    /\ zenvs[2].stdlib \in StdlibKind
    /\ last.op = "detectStdlib"
    /\ last.zenv = 2

\* C5 (as claimed): an invocation that is the marker $CC or clang-cl,
\* bare or followed by a space and arguments, resolves to the identity of
\* the bare name with the MSVC_COMPATIBLE dialect.
C5_MsvcDialectWithArguments ==
    last.op = "getCompiler" =>
        LET it1 == last.result.CXX
            identity == <<last.result.compiler, last.result.argType>>
        IN  /\ (it1 = "$CC" \/ StartsWith(it1, "$CC ")) =>
                  identity = <<"msvc", MSVC_COMPATIBLE>>
            /\ (it1 = "clang-cl" \/ StartsWith(it1, "clang-cl ")) =>
                  identity = <<"clang-cl", MSVC_COMPATIBLE>>

\* the text of s before its first space (all of s when it has none)
TextBeforeFirstSpace(s) ==
    CHOOSE e \in {SubSeq(s, 1, k) : k \in 0 .. Len(s)} :
        /\ \A i \in 1 .. Len(e) : CharAt(e, i) # " "
        /\ Len(e) = Len(s) \/ CharAt(s, Len(e) + 1) = " "

\* the invocation is one of getCompiler's terminal cases
TerminalCase(it1) ==
    \/ it1 \in {"$CC", "cl"}
    \/ TextBeforeFirstSpace(it1) = "clang-cl"

\* norm as the claim words it
ClaimedNorm(e) ==
    IF StartsWith(e, "gcc") \/ StartsWith(e, "g++") THEN "gcc"
    ELSE IF StartsWith(e, "clang") THEN "clang"
    ELSE IF StartsWith(e, "msvc") THEN "msvc"
    ELSE e

\* norm with the name cl also mapped to msvc
AmendedNorm(e) ==
    IF StartsWith(e, "gcc") \/ StartsWith(e, "g++") THEN "gcc"
    ELSE IF StartsWith(e, "clang") THEN "clang"
    ELSE IF StartsWith(e, "msvc") \/ e = "cl" THEN "msvc"
    ELSE e

C7_EmptyBuildDirFatal ==
    /\ (last.op \in {"getEnvironment", "EnvMod.getEnvironment"}
            /\ last.args.buildDir = "") =>
          (last.raised /\ last.zenv = 0 /\ Live = {})
    /\ \A h \in Live :
          /\ zenvs[h].path # ""
          /\ zenvs[h].path = EnvVar(h, "buildDir")
          /\ (last.op = "getEnvironment" /\ last.zenv = h) =>
                zenvs[h].path = last.args.buildDir

\* getEnvironment raised because of the empty build directory alone
C7_Witness ==
    /\ last.op = "getEnvironment"
    /\ last.args.buildDir = ""
    /\ last.args.customVariables # "other"
    /\ last.raised
    /\ Live = {}

\* C8: a detectStdlib call on an empty cache runs the baseline probe
\* first; if it fails the call raises with no further probe; if it succeeds
\* and no discriminating probe does, the call raises; a call that raises
\* leaves the cache empty, and a call returns a kind only if it did not raise.
C8_DetectStdlibFailsHard ==
    [][\A h \in Live :
          (last'.op = "detectStdlib" /\ last'.zenv = h /\ zenvs[h].stdlib = None) =>
            LET log == last'.probes
            IN  /\ Len(log) >= 1
                /\ log[1].snippet = "cisoProbe"
                /\ ~log[1].ok => (last'.raised /\ Len(log) = 1)
                /\ (log[1].ok /\ \A i \in 2 .. Len(log) : ~log[i].ok) =>
                      (last'.raised /\ SnippetsOf(log) = StdlibSnippets)
                /\ last'.raised =>
                      (zenvs'[h].stdlib = None /\ last'.result = None)
                /\ ~last'.raised => last'.result \in StdlibKind]_vars

\* the baseline compiled, no discriminating probe did, detectStdlib raised
C8_Witness ==
    /\ last.op = "detectStdlib"
    /\ last.raised
    /\ Len(last.probes) = 4
    /\ last.probes[1].ok
    /\ zenvs[last.zenv].stdlib = None

\* C9: a stdlib cache becomes non-empty only by a detection on that handle
\* in which exactly one discriminating probe compiled, the cached kind being
\* that probe's, or by Clone copying the parent's cache.
C9_CacheOnlyFromOnePositiveProbe ==
    [][\A h \in DOMAIN zenvs' :
          (zenvs'[h].stdlib # None
              /\ (h \notin Live \/ zenvs[h].stdlib # zenvs'[h].stdlib)) =>
            \/ /\ h \notin Live
               /\ last'.op = "Clone"
               /\ last'.result = h
               /\ zenvs'[h].stdlib = zenvs[last'.zenv].stdlib
            \/ /\ h \in Live
               /\ zenvs[h].stdlib = None
               /\ last'.op \in DetectOps
               /\ last'.zenv = h
               /\ LET log == last'.probes
                      ok == {i \in 1 .. Len(log) :
                                log[i].ok /\ log[i].snippet \in DOMAIN KindOfProbe}
                  IN  /\ Cardinality(ok) = 1
                      /\ \A i \in ok :
                            KindOfProbe[log[i].snippet] = zenvs'[h].stdlib]_vars

\* a detection has just cached libc++
C9_Witness ==
    /\ last.op = "detectStdlib"
    /\ Len(last.probes) = 4
    /\ zenvs[last.zenv].stdlib = LIBCXX

\* C10: on a handle whose stdlib is libstdc++ and whose toolchain is a
\* libstdc++ of release v (0: older than the _GLIBCXX_RELEASE macro),
\* detectFilesystem returns needsLink = (v < 9) and supported = (v >= 8).
C10_LibstdcxxLinkThreshold ==
    (last.op = "detectFilesystem" /\ ~last.raised) =>
        LET tc == EnvVar(last.zenv, "toolchain")
        IN  (zenvs[last.zenv].stdlib = LIBSTDCXX /\ tc.lib = LIBSTDCXX) =>
              /\ last.result[2] = (tc.ver < 9)
              /\ last.result[1] = (tc.ver >= 8)

\* below both thresholds: the link is needed although unsupported
C10_Witness ==
    /\ last.op = "detectFilesystem"
    /\ ~last.raised
    /\ zenvs[last.zenv].stdlib = LIBSTDCXX
    /\ EnvVar(last.zenv, "toolchain").lib = LIBSTDCXX
    /\ EnvVar(last.zenv, "toolchain").ver = 7
    /\ last.result = <<FALSE, TRUE>>

\* the number of entries of seq that belong to S
Occurrences(seq, S) == Cardinality({i \in 1 .. Len(seq) : seq[i] \in S})

\* a handle getEnvironment has just returned
Returned == last.op = "getEnvironment" /\ ~last.raised

RuntimeLibraryFlags == {"/MTd", "/MDd", "/MT", "/MD"}

\* C11 (as claimed): the compile flags of an MSVC_COMPATIBLE handle
\* contain exactly one runtime-library flag: /MTd for debug and static,
\* /MDd for debug and dynamic, /MT for release and static, /MD for release
\* and dynamic.
C11_MsvcRuntimeLibraryFlag ==
    (Returned /\ zenvs[last.zenv].argType = MSVC_COMPATIBLE) =>
        LET flags == EnvVar(last.zenv, "CXXFLAGS")
            debug == EnvVar(last.zenv, "debug")
            dynamic == EnvVar(last.zenv, "dynamic")
            expected == CASE debug /\ ~dynamic -> "/MTd"
                          [] debug /\ dynamic -> "/MDd"
                          [] ~debug /\ ~dynamic -> "/MT"
                          [] OTHER -> "/MD"
        IN  /\ Occurrences(flags, RuntimeLibraryFlags) = 1
            /\ Occurrences(flags, {expected}) = 1

\* the entries of a flag list
FlagSet(seq) == {seq[i] : i \in 1 .. Len(seq)}

\* C12: the compile flags of a POSIX handle always contain the
\* language-standard flag, -pedantic, -Wall, -Wextra and
\* -Wno-c++11-narrowing; in debug mode -g and -O0 and not -O3; in release
\* mode -O3 and neither -g nor -O0; --coverage is in the compile flags, and
\* in the link flags, exactly when debug and coverage are both on.
C12_PosixCompileFlags ==
    (Returned /\ zenvs[last.zenv].argType = POSIX) =>
        LET cxx == FlagSet(EnvVar(last.zenv, "CXXFLAGS"))
            link == FlagSet(EnvVar(last.zenv, "LINKFLAGS"))
            debug == EnvVar(last.zenv, "debug")
            coverage == EnvVar(last.zenv, "coverage")
        IN  /\ {"-std=" \o last.args.stdlib, "-pedantic", "-Wall", "-Wextra",
                "-Wno-c++11-narrowing"} \subseteq cxx
            /\ debug => ({"-g", "-O0"} \subseteq cxx /\ "-O3" \notin cxx)
            /\ ~debug => ("-O3" \in cxx /\ cxx \cap {"-g", "-O0"} = {})
            /\ "--coverage" \in cxx <=> (debug /\ coverage)
            /\ "--coverage" \in link <=> (debug /\ coverage)

\* a POSIX debug build with coverage: --coverage in both flag lists
C12_Witness ==
    /\ Returned
    /\ zenvs[last.zenv].argType = POSIX
    /\ EnvVar(last.zenv, "debug")
    /\ EnvVar(last.zenv, "coverage")
    /\ "--coverage" \in FlagSet(EnvVar(last.zenv, "CXXFLAGS"))
    /\ "--coverage" \in FlagSet(EnvVar(last.zenv, "LINKFLAGS"))
    /\ "-O0" \in FlagSet(EnvVar(last.zenv, "CXXFLAGS"))

SanitizerFlags == {"-fsanitize=undefined", "-fsanitize-undefined-trap-on-error"}

\* C13: on a POSIX handle built in debug mode with sanitizers enabled the
\* compile flags contain -fsanitize=undefined, the link flags contain it
\* exactly when the platform is not Windows, and on Windows the compile
\* flags contain -fsanitize-undefined-trap-on-error exactly when the
\* resolved compiler is not msvc; with sanitizers disabled or in release
\* mode no sanitizer flag is in the compile or the link flags.
C13_PosixSanitizerFlags ==
    Returned =>
        LET cxx == FlagSet(EnvVar(last.zenv, "CXXFLAGS"))
            link == FlagSet(EnvVar(last.zenv, "LINKFLAGS"))
            debug == EnvVar(last.zenv, "debug")
            windows == EnvVar(last.zenv, "PLATFORM") = "win32"
        IN  /\ (zenvs[last.zenv].argType = POSIX /\ debug /\ last.args.useSan) =>
                  /\ "-fsanitize=undefined" \in cxx
                  /\ "-fsanitize=undefined" \in link <=> ~windows
                  /\ windows =>
                        ("-fsanitize-undefined-trap-on-error" \in cxx
                            <=> zenvs[last.zenv].compiler # "msvc")
            /\ (~debug \/ ~last.args.useSan) =>
                  (cxx \cup link) \cap SanitizerFlags = {}

\* a POSIX debug build with sanitizers on Windows: the trap flag replaces
\* the link flag
C13_Witness ==
    /\ Returned
    /\ zenvs[last.zenv].argType = POSIX
    /\ zenvs[last.zenv].compiler # "msvc"
    /\ EnvVar(last.zenv, "debug")
    /\ last.args.useSan
    /\ EnvVar(last.zenv, "PLATFORM") = "win32"
    /\ "-fsanitize-undefined-trap-on-error" \in FlagSet(EnvVar(last.zenv, "CXXFLAGS"))
    /\ "-fsanitize=undefined" \notin FlagSet(EnvVar(last.zenv, "LINKFLAGS"))

\* C18 (as claimed): the compile and link flags of an MSVC_COMPATIBLE
\* handle contain no sanitizer flag; a sanitizer flag in the flags of a
\* handle implies the POSIX dialect, debug mode and sanitizers enabled.
C18_NoSanitizerFlagOnMsvcDialect ==
    Returned =>
        LET present == (FlagSet(EnvVar(last.zenv, "CXXFLAGS"))
                          \cup FlagSet(EnvVar(last.zenv, "LINKFLAGS")))
                            \cap SanitizerFlags
        IN  /\ zenvs[last.zenv].argType = MSVC_COMPATIBLE => present = {}
            /\ present # {} =>
                  /\ zenvs[last.zenv].argType = POSIX
                  /\ EnvVar(last.zenv, "debug")
                  /\ last.args.useSan

\* the executable a compiler string names: its text from the first
\* non-whitespace character up to the next whitespace character
ExecutableNamed(v) ==
    LET s == Strip(v)
    IN  CHOOSE e \in {SubSeq(s, 1, k) : k \in 0 .. Len(s)} :
            /\ \A i \in 1 .. Len(e) : CharAt(e, i) \notin Whitespace
            /\ Len(e) = Len(s) \/ CharAt(s, Len(e) + 1) \in Whitespace

\* the override applies: requested, and the value is not blank
Overrides(requested, v) == requested /\ v # None /\ Strip(v) # ""

\* C19 (as claimed): when the override is requested and the CXX value is
\* not blank, getCompiler returns the identity it returns for the bare
\* executable that value names, whatever whitespace precedes the name,
\* follows the value or separates the name from its arguments; when the
\* override is not requested or the value is blank the configured
\* invocation is used; CXX and CC are replaced independently.
C19_OverrideIdentity ==
    last.op = "getCompiler" =>
        LET a == last.args
            r == last.result
            bare == getCompiler(TRUE, ExecutableNamed(a.osCXX), a.osCC,
                                a.cfgCXX, a.cfgCC)
        IN  /\ Overrides(a.systemCompiler, a.osCXX) =>
                  /\ r.compiler = bare.compiler
                  /\ r.argType = bare.argType
            /\ ~Overrides(a.systemCompiler, a.osCXX) => r.CXX = a.cfgCXX
            /\ r.CC = IF Overrides(a.systemCompiler, a.osCC)
                      THEN a.osCC ELSE a.cfgCC

\* ConfigContext.configureFilesystem raises: a detection raised, or the
\* filesystem library is not supported (lines 195-199 of src/utils.py)
configureFilesystemRaises(cached, tc, system) ==
    LET r == detectFilesystem(cached, tc, system)
    IN  r.raised \/ ~r.result[1]

\* what the caller of a detection sees: whether it raised, and its value
Outcome(op, cached, tc, system) ==
    CASE op = "detectStdlib" ->
            LET r == detectStdlib(cached, tc) IN <<r.raised, r.result>>
      [] op = "detectFilesystem" ->
            LET r == detectFilesystem(cached, tc, system) IN <<r.raised, r.result>>
      [] op = "configureFilesystem" ->
            <<configureFilesystemRaises(cached, tc, system), None>>

\* two outcomes a caller cannot tell apart: both raised, or both returned
\* the same value
SameOutcome(o1, o2) == o1[1] = o2[1] /\ (o1[1] \/ o1[2] = o2[2])

\* C14 (as claimed): a detection on a handle whose compiler cannot be
\* invoked ends in an outcome that no toolchain with a working compiler
\* produces for the same call; in particular it does not return the
\* negative result. (No probe compiles on such a handle, so its cache is
\* the one the call started with.)
C14_BrokenToolchainDistinct ==
    (last.op \in DetectOps /\ ~Invocable(EnvVar(last.zenv, "toolchain"))) =>
        /\ last.raised
        /\ \A tc \in Toolchains :
              Invocable(tc) =>
                ~SameOutcome(Outcome(last.op, zenvs[last.zenv].stdlib, tc,
                                     EnvVar(last.zenv, "system")),
                             <<last.raised, last.result>>)

\* no entry of seq occurs twice
NoDuplicates(seq) == \A i, j \in 1 .. Len(seq) : seq[i] = seq[j] => i = j

\* C16 (as claimed): no library name occurs twice in the library
\* collection of a handle, whatever withLibraries and configureFilesystem
\* calls were made on it.
C16_LibrariesAreASet ==
    \A h \in Live : NoDuplicates(EnvVar(h, "LIBS"))

\* C17: configureFilesystem changes the library list of its handle only
\* when detectFilesystem reports (supported, needsLink) = (true, true), and
\* then appends stdc++fs for libstdc++ and c++fs for libc++; it adds
\* nothing for the MSVC STL and nothing for libc++ on Darwin; when
\* detection reports supported = false it raises, and then nothing but the
\* stdlib cache of the handle has changed.
C17_ConfigureFilesystemLinks ==
    [][\A h \in Live :
          (last'.op = "configureFilesystem" /\ last'.zenv = h) =>
            LET before == EnvVar(h, "LIBS")
                after == environments'[zenvs'[h].environment].LIBS
                kind == zenvs'[h].stdlib
                r == detectFilesystem(zenvs[h].stdlib, EnvVar(h, "toolchain"),
                                      EnvVar(h, "system"))
            IN  /\ after # before =>
                      /\ ~last'.raised
                      /\ r.result = <<TRUE, TRUE>>
                      /\ kind \in {LIBSTDCXX, LIBCXX}
                      /\ after = before \o
                            <<IF kind = LIBSTDCXX THEN "stdc++fs" ELSE "c++fs">>
                /\ (~r.raised /\ r.result = <<TRUE, TRUE>>) => after # before
                /\ kind = MSVC_STL => after = before
                /\ (kind = LIBCXX /\ EnvVar(h, "system") = "Darwin") =>
                      after = before
                /\ (~r.raised /\ ~r.result[1]) =>
                      /\ last'.raised
                      /\ environments' = environments
                      /\ lists' = lists
                      /\ zenvs' = [zenvs EXCEPT ![h].stdlib = r.stdlib]]_vars

\* configureFilesystem has just linked c++fs on a libc++ handle
C17_Witness ==
    /\ last.op = "configureFilesystem"
    /\ ~last.raised
    /\ zenvs[last.zenv].stdlib = LIBCXX
    /\ EnvVar(last.zenv, "system") = "Linux"
    /\ EnvVar(last.zenv, "LIBS") = <<"c++fs">>

\* C15 (as claimed): a detection run through the context obtained from
\* h.configure(), by configureFilesystem or by test("detectStdlib" /
\* "detectFilesystem", ...), leaves the stdlib cache of every handle other
\* than h unchanged.
C15_ContextUsesOwnCache ==
    [][last'.op \in {"test", "configureFilesystem"} =>
          \A g \in Live :
              g # last'.zenv => zenvs'[g].stdlib = zenvs[g].stdlib]_vars

\* the step is a call on context c that ran a test or a method of the
\* SConf object
Ran(c) ==
    /\ last'.op = "test"
    /\ last'.args.context = c
    /\ last'.result.ran # None

\* C20 (as claimed): a test runs through a context only while the context
\* is entered, and only a test registered on it; __enter__ registers
\* detectStdlib and detectFilesystem; test(name, callback = f) on an
\* entered context registers f under name and runs it in the same call;
\* test(name) for a name not registered raises, runs nothing and changes
\* no handle; __exit__ leaves the context without configuration.
C20_ProbesOnlyWhileEntered ==
    [][\A c \in LiveContexts :
          /\ Ran(c) =>
                /\ contexts[c].config = "SConf"
                /\ last'.args.name \in DOMAIN contexts'[c].tests
                /\ contexts'[c].tests[last'.args.name] = last'.result.ran
          /\ (last'.op = "enter" /\ last'.args = c /\ ~last'.raised) =>
                /\ contexts'[c].config = "SConf"
                /\ \A n \in DOMAIN BuiltinTests :
                      /\ n \in DOMAIN contexts'[c].tests
                      /\ contexts'[c].tests[n] = BuiltinTests[n]
          /\ (last'.op = "test" /\ last'.args.context = c
                  /\ last'.args.callback # None
                  /\ contexts[c].config = "SConf") =>
                /\ last'.args.name \in DOMAIN contexts'[c].tests
                /\ contexts'[c].tests[last'.args.name] = last'.args.callback
                /\ last'.result.ran = last'.args.callback
          /\ (last'.op = "test" /\ last'.args.context = c
                  /\ last'.args.callback = None
                  /\ last'.args.name \notin DOMAIN contexts[c].tests) =>
                /\ last'.raised
                /\ last'.result.ran = None
                /\ last'.probes = <<>>
                /\ UNCHANGED <<zenvs, environments, lists>>
          /\ (last'.op = "exit" /\ last'.args = c) =>
                contexts'[c].config # "SConf"]_vars

\* C21 (as claimed): when the user sets no debug option, the debug mode of
\* the handle getEnvironment returns, and with it the choice between the
\* debug and the release flags, is the defaultDebug argument of the call.
C21_DebugDefaultsToToggle ==
    (Returned /\ last.args.userDebug = "unset") =>
        /\ zenvs[last.zenv].debug = last.args.defaultDebug
        /\ EnvVar(last.zenv, "debug") = last.args.defaultDebug
        /\ EnvVar(last.zenv, "CXXFLAGS")
              = DerivedCxxFlags(zenvs[last.zenv].argType, last.args.stdlib,
                                last.args.defaultDebug, last.args.coverage,
                                last.args.dynamic)
                  \o SanitizerCxxFlags(zenvs[last.zenv].argType,
                                       EnvVar(last.zenv, "PLATFORM"),
                                       zenvs[last.zenv].compiler,
                                       last.args.defaultDebug, last.args.useSan)

====
